---- MODULE Spec2Model ----
(***************************************************************************)
(* Model of py_client/user.py: main() gathers two User.async_task          *)
(* coroutines on one asyncio loop.  Each User owns a socket.io client, a   *)
(* media track, a mediasoup device and one send transport.  The socket.io  *)
(* server, the mediasoup engine (transport 'connect'/'produce' events,     *)
(* ICE/DTLS progress) and the media track are the environment: their       *)
(* outcomes are nondeterministic choices.                                  *)
(***************************************************************************)
EXTENDS Naturals, Sequences, FiniteSets

\* main() starts exactly two tasks (asyncio.gather of two task(...) calls).
NumSessions == 2
Sessions == 1..NumSessions

\* How many times the engine may raise the transport's 'connect' event
\* inside one produce() call.
MaxConnectEvents == 2

\* Identifiers the server may return in a getRouterRtpCapabilities response.
SessionIds == {"sidA", "sidB"}

None == "None"
\* No exception: the step and the type of an exception are both "none".
NoError == [step |-> "none", type |-> "none"]
\* A stop-record response that has not arrived.
NoResult == [received |-> FALSE, keys |-> {}]
\* sessionId field of a message sent without a payload.
NoField == "NoField"

\* Keys the stop-record response may hold.
ImageKeys == {"firstImage", "lastImage"}

VARIABLES
    pc,                        \* position of each async_task coroutine
    sio,                       \* state of self.sio: disconnected, connected, closed
    handlers,                  \* connection-success handler registered on self.sio
    session_id,                \* self.session_id
    connection_success_event,  \* self.connection_success_event is set
    router_rtp_capabilities,   \* self.router_rtp_capabilities
    device,                    \* self.device
    producer_transport,        \* self.producer_transport
    track_ended_event,         \* self.track_ended_event is set
    local_producer,            \* producer returned by produce(): None or "producing"
    track_ended_handler,       \* trackended handler attached to local_producer
    connectionState,           \* engine: connection state of the send transport
    connectEvents,             \* engine: 'connect' events raised so far
    greeted,                   \* server: connection-success has been pushed
    trackDone,                 \* media: the track source is exhausted
    dropped,                   \* server: it answers no further call of the session
    assigned,                  \* server: id it returned for getRouterRtpCapabilities
    result,                    \* the stop-record response: received, and its keys
    files,                     \* the two image files of the session
    sent,                      \* messages the session has put on its channel
    error,                     \* exception raised out of async_task
    mainError                  \* exception raised out of main()'s gather

vars == <<pc, sio, handlers, session_id, connection_success_event,
          router_rtp_capabilities, device, producer_transport,
          track_ended_event, local_producer, track_ended_handler,
          connectionState, connectEvents, greeted, trackDone, dropped,
          assigned, result, files, sent, error, mainError>>

\* The attributes User.__init__ creates on each instance.
userVars == <<session_id, connection_success_event, router_rtp_capabilities,
              device, producer_transport, track_ended_event>>

\* State of the engine, the server and the media source.
envVars == <<connectionState, connectEvents, greeted, trackDone, dropped,
            assigned>>

NoFiles == [first |-> "absent", last |-> "absent"]

Init ==
    /\ pc = [s \in Sessions |-> "start"]
    /\ sio = [s \in Sessions |-> "disconnected"]
    /\ handlers = [s \in Sessions |-> FALSE]
    /\ session_id = [s \in Sessions |-> None]
    /\ connection_success_event = [s \in Sessions |-> FALSE]
    /\ router_rtp_capabilities = [s \in Sessions |-> None]
    /\ device = [s \in Sessions |-> None]
    /\ producer_transport = [s \in Sessions |-> None]
    /\ track_ended_event = [s \in Sessions |-> FALSE]
    /\ local_producer = [s \in Sessions |-> None]
    /\ track_ended_handler = [s \in Sessions |-> FALSE]
    /\ connectionState = [s \in Sessions |-> None]
    /\ connectEvents = [s \in Sessions |-> 0]
    /\ greeted = [s \in Sessions |-> FALSE]
    /\ trackDone = [s \in Sessions |-> FALSE]
    /\ dropped = [s \in Sessions |-> FALSE]
    /\ assigned = [s \in Sessions |-> None]
    /\ result = [s \in Sessions |-> NoResult]
    /\ files = [s \in Sessions |-> NoFiles]
    /\ sent = [s \in Sessions |-> <<>>]
    /\ error = [s \in Sessions |-> NoError]
    /\ mainError = NoError

----------------------------------------------------------------------------
\* Helpers

\* sio.emit / sio.call put one message on the session's own channel.
Message(ev, sid) == [event |-> ev, sessionId |-> sid]

Send(s, ev, sid) == sent' = [sent EXCEPT ![s] = Append(@, Message(ev, sid))]

\* An exception leaves async_task: nothing catches it, task() re-raises it and
\* gather hands the first one to main().
Raise(s, step, type) ==
    /\ pc' = [pc EXCEPT ![s] = "failed"]
    /\ error' = [error EXCEPT ![s] = [step |-> step, type |-> type]]
    /\ mainError' = IF mainError = NoError
                    THEN [step |-> step, type |-> type]
                    ELSE mainError

Goto(s, label) ==
    /\ pc' = [pc EXCEPT ![s] = label]
    /\ UNCHANGED <<error, mainError>>

Events(s) == {sent[s][i].event : i \in 1..Len(sent[s])}

Count(s, ev) == Cardinality({i \in 1..Len(sent[s]) : sent[s][i].event = ev})

----------------------------------------------------------------------------
\* async_task, line 34: await self.sio.connect(...)

AsyncTaskConnect(s) ==
    /\ pc[s] = "start"
    /\ Goto(s, "connecting")
    /\ UNCHANGED <<sio, handlers, userVars, local_producer, track_ended_handler,
                   envVars, result, files, sent>>

\* The server accepts the connection; the coroutine has not resumed yet.
SioConnectOk(s) ==
    /\ pc[s] = "connecting"
    /\ sio' = [sio EXCEPT ![s] = "connected"]
    /\ Goto(s, "connected")
    /\ UNCHANGED <<handlers, userVars, local_producer, track_ended_handler,
                   envVars, result, files, sent>>

SioConnectError(s) ==
    /\ pc[s] = "connecting"
    /\ Raise(s, "connect", "ConnectionError")
    /\ UNCHANGED <<sio, handlers, userVars, local_producer, track_ended_handler,
                   envVars, result, files, sent>>

\* line 37 and lines 63-68: the handler is registered once connect() returned.
SetupSocketHandlers(s) ==
    /\ pc[s] = "connected"
    /\ handlers' = [handlers EXCEPT ![s] = TRUE]
    /\ Goto(s, "wait_connection_success")
    /\ UNCHANGED <<sio, userVars, local_producer, track_ended_handler,
                   envVars, result, files, sent>>

\* The server pushes connection-success; conn_handler (lines 65-68) runs when
\* it is registered, otherwise the client drops the event.
ConnHandler(s) ==
    /\ sio[s] = "connected"
    /\ ~greeted[s]
    /\ greeted' = [greeted EXCEPT ![s] = TRUE]
    /\ connection_success_event' =
         [connection_success_event EXCEPT ![s] = @ \/ handlers[s]]
    /\ UNCHANGED <<pc, sio, handlers, session_id, router_rtp_capabilities,
                   device, producer_transport, track_ended_event,
                   local_producer, track_ended_handler, connectionState,
                   connectEvents, trackDone, dropped, assigned, result, files,
                   sent, error, mainError>>

\* The positions where the coroutine is suspended in sio.call (lines 71, 84,
\* 97 and 122).
CallPcs == {"call_capabilities", "call_create_transport", "call_produce",
            "call_stop_record"}

\* Server: the response to the pending call never arrives (the request or
\* the response is lost, or the server stops answering the session).
ServerDrops(s) ==
    /\ pc[s] \in CallPcs
    /\ ~dropped[s]
    /\ dropped' = [dropped EXCEPT ![s] = TRUE]
    /\ UNCHANGED <<pc, sio, handlers, userVars, local_producer,
                   track_ended_handler, connectionState, connectEvents,
                   greeted, trackDone, assigned, result, files, sent, error,
                   mainError>>

\* Mutant of GetRouterRtpCapabilitiesCall: the call is started but not
\* awaited, and the coroutine goes on to build the device.
GetRouterRtpCapabilitiesNotAwaited(s) ==
    /\ pc[s] = "wait_connection_success"
    /\ connection_success_event[s]
    /\ Send(s, "getRouterRtpCapabilities", NoField)
    /\ Goto(s, "create_device")
    /\ UNCHANGED <<sio, handlers, userVars, local_producer, track_ended_handler,
                   envVars, result, files>>

\* line 39 then line 71: the wait on connection_success_event returns and
\* get_router_rtp_capabilities issues its call.
GetRouterRtpCapabilitiesCall(s) ==
    /\ pc[s] = "wait_connection_success"
    /\ connection_success_event[s]
    /\ Send(s, "getRouterRtpCapabilities", NoField)
    /\ Goto(s, "call_capabilities")
    /\ UNCHANGED <<sio, handlers, userVars, local_producer, track_ended_handler,
                   envVars, result, files>>

\* Mutant of GetRouterRtpCapabilitiesReturn: session_id is an attribute of the
\* class, shared by every User.
GetRouterRtpCapabilitiesReturnShared(s) ==
    /\ pc[s] = "call_capabilities"
    /\ ~dropped[s]
    /\ \E sid \in SessionIds :
           /\ assigned' = [assigned EXCEPT ![s] = sid]
           /\ session_id' = [t \in Sessions |-> sid]
    /\ router_rtp_capabilities' =
           [router_rtp_capabilities EXCEPT ![s] = "capabilities"]
    /\ Goto(s, "create_device")
    /\ UNCHANGED <<sio, handlers, connection_success_event, device,
                   producer_transport, track_ended_event, local_producer,
                   track_ended_handler, connectionState, connectEvents,
                   greeted, trackDone, dropped, result, files, sent>>

\* Mutant of GetRouterRtpCapabilitiesReturn: the sessionId of the response is
\* not stored (line 72 left out).
GetRouterRtpCapabilitiesReturnUnbound(s) ==
    /\ pc[s] = "call_capabilities"
    /\ ~dropped[s]
    /\ \E sid \in SessionIds :
           assigned' = [assigned EXCEPT ![s] = sid]
    /\ router_rtp_capabilities' =
           [router_rtp_capabilities EXCEPT ![s] = "capabilities"]
    /\ Goto(s, "create_device")
    /\ UNCHANGED <<sio, handlers, session_id, connection_success_event, device,
                   producer_transport, track_ended_event, local_producer,
                   track_ended_handler, connectionState, connectEvents,
                   greeted, trackDone, dropped, result, files, sent>>

\* lines 72-76 and line 41: the response binds session_id and the capabilities.
GetRouterRtpCapabilitiesReturn(s) ==
    /\ pc[s] = "call_capabilities"
    /\ ~dropped[s]
    /\ \E sid \in SessionIds :
           /\ assigned' = [assigned EXCEPT ![s] = sid]
           /\ session_id' = [session_id EXCEPT ![s] = sid]
    /\ router_rtp_capabilities' =
           [router_rtp_capabilities EXCEPT ![s] = "capabilities"]
    /\ Goto(s, "create_device")
    /\ UNCHANGED <<sio, handlers, connection_success_event, device,
                   producer_transport, track_ended_event, local_producer,
                   track_ended_handler, connectionState, connectEvents,
                   greeted, trackDone, dropped, result, files, sent>>

\* sio.call raises when no response arrives within its timeout.
GetRouterRtpCapabilitiesError(s) ==
    /\ pc[s] = "call_capabilities"
    /\ Raise(s, "getRouterRtpCapabilities", "TimeoutError")
    /\ UNCHANGED <<sio, handlers, userVars, local_producer, track_ended_handler,
                   envVars, result, files, sent>>

\* lines 78-81 and line 42: device.load succeeds.
CreateDevice(s) ==
    /\ pc[s] = "create_device"
    /\ device' = [device EXCEPT ![s] = "device"]
    /\ Goto(s, "create_send_transport")
    /\ UNCHANGED <<sio, handlers, session_id, connection_success_event,
                   router_rtp_capabilities, producer_transport,
                   track_ended_event, local_producer, track_ended_handler,
                   envVars, result, files, sent>>

\* Mutant of CreateDeviceError: the exception is caught and recorded, and the
\* coroutine goes on to create the transport.
CreateDeviceErrorIgnored(s) ==
    /\ pc[s] = "create_device"
    /\ error' = [error EXCEPT ![s] =
                    [step |-> "create_device", type |-> "UnsupportedError"]]
    /\ pc' = [pc EXCEPT ![s] = "create_send_transport"]
    /\ UNCHANGED <<sio, handlers, userVars, local_producer, track_ended_handler,
                   envVars, result, files, sent, mainError>>

\* device.load raises (no usable codec for the track).
CreateDeviceError(s) ==
    /\ pc[s] = "create_device"
    /\ Raise(s, "create_device", "UnsupportedError")
    /\ UNCHANGED <<sio, handlers, userVars, local_producer, track_ended_handler,
                   envVars, result, files, sent>>

\* line 84: the createTransport call carries self.session_id.
CreateSendTransportCall(s) ==
    /\ pc[s] = "create_send_transport"
    /\ Send(s, "createTransport", session_id[s])
    /\ Goto(s, "call_create_transport")
    /\ UNCHANGED <<sio, handlers, userVars, local_producer, track_ended_handler,
                   envVars, result, files>>

\* lines 86-103 and line 44: the transport is built in state new, with its
\* connect and produce handlers.
CreateSendTransportReturn(s) ==
    /\ pc[s] = "call_create_transport"
    /\ ~dropped[s]
    /\ producer_transport' = [producer_transport EXCEPT ![s] = "transport"]
    /\ connectionState' = [connectionState EXCEPT ![s] = "new"]
    /\ Goto(s, "produce")
    /\ UNCHANGED <<sio, handlers, session_id, connection_success_event,
                   router_rtp_capabilities, device, track_ended_event,
                   local_producer, track_ended_handler, connectEvents, greeted,
                   trackDone, dropped, assigned, result, files, sent>>

\* Mutant of CreateSendTransportError: on a timeout the createTransport call
\* is issued again.
CreateSendTransportRetry(s) ==
    /\ pc[s] = "call_create_transport"
    /\ Send(s, "createTransport", session_id[s])
    /\ Goto(s, "call_create_transport")
    /\ UNCHANGED <<sio, handlers, userVars, local_producer, track_ended_handler,
                   envVars, result, files>>

CreateSendTransportError(s) ==
    /\ pc[s] = "call_create_transport"
    /\ Raise(s, "createTransport", "TimeoutError")
    /\ UNCHANGED <<sio, handlers, userVars, local_producer, track_ended_handler,
                   envVars, result, files, sent>>

\* lines 88-92: inside produce() (line 106) the engine raises 'connect'; every
\* time it does, on_connect emits connectProducerTransport and returns. The
\* engine then starts the ICE/DTLS handshake.
OnConnect(s) ==
    /\ pc[s] = "produce"
    /\ connectEvents[s] < MaxConnectEvents
    /\ connectEvents' = [connectEvents EXCEPT ![s] = @ + 1]
    /\ Send(s, "connectProducerTransport", session_id[s])
    /\ connectionState' = [connectionState EXCEPT ![s] =
                              IF @ = "new" THEN "connecting" ELSE @]
    /\ UNCHANGED <<pc, sio, handlers, userVars, local_producer,
                   track_ended_handler, greeted, trackDone, dropped, assigned,
                   result, files,
                   error, mainError>>

\* lines 94-99: after 'connect' the engine raises 'produce' and on_produce
\* issues the transport-produce call, whatever the transport's state is.
OnProduce(s) ==
    /\ pc[s] = "produce"
    /\ connectEvents[s] >= 1
    /\ Send(s, "transport-produce", session_id[s])
    /\ Goto(s, "call_produce")
    /\ UNCHANGED <<sio, handlers, userVars, local_producer, track_ended_handler,
                   envVars, result, files>>

\* Engine: the ICE/DTLS handshake of the transport completes.
TransportConnected(s) ==
    /\ connectionState[s] = "connecting"
    /\ connectionState' = [connectionState EXCEPT ![s] = "connected"]
    /\ UNCHANGED <<pc, sio, handlers, userVars, local_producer,
                   track_ended_handler, connectEvents, greeted, trackDone,
                   dropped, assigned,
                   result, files, sent, error, mainError>>

\* Engine: the ICE/DTLS handshake fails; the client listens to no
\* connection-state event.
TransportFailed(s) ==
    /\ connectionState[s] = "connecting"
    /\ connectionState' = [connectionState EXCEPT ![s] = "failed"]
    /\ UNCHANGED <<pc, sio, handlers, userVars, local_producer,
                   track_ended_handler, connectEvents, greeted, trackDone,
                   dropped, assigned,
                   result, files, sent, error, mainError>>

\* lines 100-101 and 106-115: the producer id comes back, produce() returns
\* the producer and the trackended handler is attached to it.
ConnectSendTransportReturn(s) ==
    /\ pc[s] = "call_produce"
    /\ ~dropped[s]
    /\ local_producer' = [local_producer EXCEPT ![s] = "producing"]
    /\ track_ended_handler' = [track_ended_handler EXCEPT ![s] = TRUE]
    /\ Goto(s, "start_record")
    /\ UNCHANGED <<sio, handlers, userVars, envVars, result, files, sent>>

\* Mutant of OnProduceError: the failure of the call is swallowed and the
\* producer is handed back all the same.
OnProduceErrorSwallowed(s) ==
    /\ pc[s] = "call_produce"
    /\ local_producer' = [local_producer EXCEPT ![s] = "producing"]
    /\ track_ended_handler' = [track_ended_handler EXCEPT ![s] = TRUE]
    /\ error' = [error EXCEPT ![s] =
                    [step |-> "transport-produce", type |-> "TimeoutError"]]
    /\ pc' = [pc EXCEPT ![s] = "start_record"]
    /\ UNCHANGED <<sio, handlers, userVars, envVars, result, files, sent,
                   mainError>>

\* line 97: the transport-produce call raises; the exception leaves
\* on_produce, produce() and connect_send_transport.
OnProduceError(s) ==
    /\ pc[s] = "call_produce"
    /\ Raise(s, "transport-produce", "TimeoutError")
    /\ UNCHANGED <<sio, handlers, userVars, local_producer, track_ended_handler,
                   envVars, result, files, sent>>

\* lines 117-118 and line 48.
StartRecord(s) ==
    /\ pc[s] = "start_record"
    /\ Send(s, "start-record", session_id[s])
    /\ Goto(s, "wait_track_ended")
    /\ UNCHANGED <<sio, handlers, userVars, local_producer, track_ended_handler,
                   envVars, result, files>>

\* Media: the file is played out once the transport carries it; the producer
\* raises trackended and track_ended_handler (lines 108-111) runs when it is
\* attached.
TrackEndedHandler(s) ==
    /\ connectionState[s] = "connected"
    /\ ~trackDone[s]
    /\ trackDone' = [trackDone EXCEPT ![s] = TRUE]
    /\ track_ended_event' =
           [track_ended_event EXCEPT ![s] = @ \/ track_ended_handler[s]]
    /\ UNCHANGED <<pc, sio, handlers, session_id, connection_success_event,
                   router_rtp_capabilities, device, producer_transport,
                   local_producer, track_ended_handler, connectionState,
                   connectEvents, greeted, dropped, assigned, result, files,
                   sent, error,
                   mainError>>

\* Mutant of StopRecordCall: stop_record is called without waiting on
\* track_ended_event.
StopRecordCallNoWait(s) ==
    /\ pc[s] = "wait_track_ended"
    /\ Send(s, "stop-record", session_id[s])
    /\ Goto(s, "call_stop_record")
    /\ UNCHANGED <<sio, handlers, userVars, local_producer, track_ended_handler,
                   envVars, result, files>>

\* line 50 then lines 120-122: the wait on track_ended_event returns and
\* stop_record issues its call.
StopRecordCall(s) ==
    /\ pc[s] = "wait_track_ended"
    /\ track_ended_event[s]
    /\ Send(s, "stop-record", session_id[s])
    /\ Goto(s, "call_stop_record")
    /\ UNCHANGED <<sio, handlers, userVars, local_producer, track_ended_handler,
                   envVars, result, files>>

\* line 52: the response is a dictionary holding any of the two image keys.
StopRecordReturn(s) ==
    /\ pc[s] = "call_stop_record"
    /\ ~dropped[s]
    /\ \E keys \in SUBSET ImageKeys :
           result' = [result EXCEPT ![s] = [received |-> TRUE, keys |-> keys]]
    /\ Goto(s, "persist")
    /\ UNCHANGED <<sio, handlers, userVars, local_producer, track_ended_handler,
                   envVars, files, sent>>

\* Mutant of StopRecordError: the call is made with timeout=None and never
\* gives up.
StopRecordErrorNoTimeout(s) ==
    /\ pc[s] = "call_stop_record"
    /\ FALSE
    /\ UNCHANGED vars

\* line 122: sio.call is given no timeout argument, so the client's default
\* timeout applies and the call raises when no response came in time.
StopRecordError(s) ==
    /\ pc[s] = "call_stop_record"
    /\ Raise(s, "stop-record", "TimeoutError")
    /\ UNCHANGED <<sio, handlers, userVars, local_producer, track_ended_handler,
                   envVars, result, files, sent>>

\* lines 54-57: open() creates each file before the dictionary is indexed, and
\* a missing key raises KeyError at that point.
PersistedFiles(keys) ==
    [first |-> IF "firstImage" \in keys THEN "written" ELSE "empty",
     last  |-> IF "firstImage" \notin keys THEN "absent"
               ELSE IF "lastImage" \in keys THEN "written" ELSE "empty"]

Persist(s) ==
    /\ pc[s] = "persist"
    /\ files' = [files EXCEPT ![s] = PersistedFiles(result[s].keys)]
    /\ IF result[s].keys = ImageKeys
       THEN Goto(s, "sleep")
       ELSE Raise(s, "persist", "KeyError")
    /\ UNCHANGED <<sio, handlers, userVars, local_producer, track_ended_handler,
                   envVars, result, sent>>

\* lines 59-61: after the sleep the channel is shut down.
Shutdown(s) ==
    /\ pc[s] = "sleep"
    /\ sio' = [sio EXCEPT ![s] = "closed"]
    /\ Goto(s, "done")
    /\ UNCHANGED <<handlers, userVars, local_producer, track_ended_handler,
                   envVars, result, files, sent>>

\* lines 130-135: once gather has raised into main(), asyncio.run cancels the
\* task that is still pending.
Cancel(s) ==
    /\ mainError # NoError
    /\ pc[s] \notin {"done", "failed", "cancelled"}
    /\ pc' = [pc EXCEPT ![s] = "cancelled"]
    /\ UNCHANGED <<sio, handlers, userVars, local_producer, track_ended_handler,
                   envVars, result, files, sent, error, mainError>>

Next ==
    \E s \in Sessions :
        \/ AsyncTaskConnect(s)
        \/ SioConnectOk(s)
        \/ SioConnectError(s)
        \/ SetupSocketHandlers(s)
        \/ ConnHandler(s)
        \/ ServerDrops(s)
        \/ GetRouterRtpCapabilitiesCall(s)
        \/ GetRouterRtpCapabilitiesReturn(s)
        \/ GetRouterRtpCapabilitiesError(s)
        \/ CreateDevice(s)
        \/ CreateDeviceError(s)
        \/ CreateSendTransportCall(s)
        \/ CreateSendTransportReturn(s)
        \/ CreateSendTransportError(s)
        \/ OnConnect(s)
        \/ OnProduce(s)
        \/ TransportConnected(s)
        \/ TransportFailed(s)
        \/ ConnectSendTransportReturn(s)
        \/ OnProduceError(s)
        \/ StartRecord(s)
        \/ TrackEndedHandler(s)
        \/ StopRecordCall(s)
        \/ StopRecordReturn(s)
        \/ StopRecordError(s)
        \/ Persist(s)
        \/ Shutdown(s)
        \/ Cancel(s)

Spec == Init /\ [][Next]_vars

\* The timer of a pending sio.call runs on the event loop: a call that stays
\* pending does time out.
FairSpec ==
    /\ Spec
    /\ \A s \in Sessions :
          /\ WF_vars(GetRouterRtpCapabilitiesError(s))
          /\ WF_vars(CreateSendTransportError(s))
          /\ WF_vars(OnProduceError(s))
          /\ WF_vars(StopRecordError(s))

TypeOK ==
    /\ \A s \in Sessions :
        /\ sio[s] \in {"disconnected", "connected", "closed"}
        /\ session_id[s] \in SessionIds \cup {None}
        /\ assigned[s] \in SessionIds \cup {None}
        /\ connectionState[s] \in {None, "new", "connecting", "connected", "failed"}
        /\ connectEvents[s] \in 0..MaxConnectEvents
        /\ result[s].keys \subseteq ImageKeys
        /\ Len(sent[s]) <= 6 + MaxConnectEvents

----------------------------------------------------------------------------
\* Properties

\* This step puts message ev on the channel of session s.
Emitted(s, ev) ==
    /\ Len(sent'[s]) = Len(sent[s]) + 1
    /\ sent'[s][Len(sent'[s])].event = ev

\* C1: for every transport, connectProducerTransport is emitted exactly once
\* over the life of the session, however often the engine raises 'connect':
\* never more than once, and once by the time production is requested.
C1_ConnectEmittedExactlyOnce ==
    \A s \in Sessions :
        /\ Count(s, "connectProducerTransport") <= 1
        /\ "transport-produce" \in Events(s)
              => Count(s, "connectProducerTransport") = 1

\* C2: when the stop-record response lacks firstImage or lastImage, or the
\* call failed, the session writes no image; firstImage is never written
\* without lastImage being written too.
C2_NoPartialArtifacts ==
    \A s \in Sessions :
        /\ (~result[s].received \/ result[s].keys # ImageKeys)
              => (files[s].first # "written" /\ files[s].last # "written")
        /\ files[s].first = "written" => files[s].last = "written"

\* C3: start-record is emitted only in a state where the producer transport
\* is connected and a producer id has been returned by transport-produce.
C3_RecordAfterConnectedAndProducing ==
    [][\A s \in Sessions :
          Emitted(s, "start-record")
              => /\ connectionState[s] = "connected"
                 /\ local_producer[s] = "producing"]_vars

\* C4: the transport-produce call is never issued while the transport's
\* connection state is not yet connected.
C4_ProduceAfterConnected ==
    [][\A s \in Sessions :
          Emitted(s, "transport-produce")
              => connectionState[s] = "connected"]_vars

\* C5: when the transport-produce call fails, the session holds no producer
\* in the producing state, has no trackended handler attached and never
\* emits start-record.
C5_ProduceFailsAtomically ==
    \A s \in Sessions :
        error[s].step = "transport-produce"
            => /\ local_producer[s] = None
               /\ ~track_ended_handler[s]
               /\ "start-record" \notin Events(s)
               /\ pc[s] = "failed"

C5_Witness ==
    \E s \in Sessions :
        /\ error[s].step = "transport-produce"
        /\ "transport-produce" \in Events(s)
        /\ pc[s] = "failed"

\* The messages a session can have sent when the named step raises.
SentBefore(step) ==
    CASE step = "connect" -> {}
      [] step \in {"getRouterRtpCapabilities", "create_device"} ->
            {"getRouterRtpCapabilities"}
      [] step = "createTransport" ->
            {"getRouterRtpCapabilities", "createTransport"}
      [] step = "transport-produce" ->
            {"getRouterRtpCapabilities", "createTransport",
             "connectProducerTransport", "transport-produce"}
      [] OTHER ->
            {"getRouterRtpCapabilities", "createTransport",
             "connectProducerTransport", "transport-produce",
             "start-record", "stop-record"}

\* The request/response calls and the start-record emit of async_task.
StepMessages ==
    {"getRouterRtpCapabilities", "createTransport", "transport-produce",
     "start-record", "stop-record"}

\* C6: when a step of a session fails, the error reaches the caller (task()
\* and, for the first failure, main()), no later step of the session runs
\* (no later message, device, transport, file or shutdown), and no step is
\* issued twice.
C6_FailureShortCircuits ==
    \A s \in Sessions :
        /\ \A ev \in StepMessages : Count(s, ev) <= 1
        /\ error[s] # NoError =>
              /\ pc[s] = "failed"
              /\ mainError # NoError
              /\ Events(s) \subseteq SentBefore(error[s].step)
              /\ error[s].step \in {"connect", "getRouterRtpCapabilities"}
                    => device[s] = None
              /\ error[s].step \in {"connect", "getRouterRtpCapabilities",
                                    "create_device", "createTransport"}
                    => producer_transport[s] = None
              /\ error[s].step # "persist" => files[s] = NoFiles
              /\ sio[s] # "closed"

C6_Witness ==
    \E s \in Sessions :
        /\ error[s].step = "getRouterRtpCapabilities"
        /\ pc[s] = "failed"
        /\ mainError # NoError
        /\ \E t \in Sessions : error[t].step = "create_device"

\* C7: a session that aborted on an error no longer holds its channel
\* connected nor its transport open.
C7_AbortReleasesResources ==
    \A s \in Sessions :
        pc[s] = "failed"
            => /\ sio[s] # "connected"
               /\ producer_transport[s] # "transport"

\* The attributes of User the sessions must not share.
UserState(s) ==
    <<session_id[s], connection_success_event[s], router_rtp_capabilities[s],
      device[s], producer_transport[s], track_ended_event[s],
      local_producer[s], track_ended_handler[s]>>

\* This step is a step of session s: of its coroutine, of one of its
\* handlers, or of its server, engine or track.
StepOf(s) ==
    \/ pc'[s] # pc[s] /\ pc'[s] # "cancelled"
    \/ greeted'[s] # greeted[s]
    \/ connectEvents'[s] # connectEvents[s]
    \/ connectionState'[s] # connectionState[s]
    \/ trackDone'[s] # trackDone[s]
    \/ dropped'[s] # dropped[s]

\* C8: every message of a session carries the session's own identifier, and
\* a step of one session leaves the other session's session_id, device,
\* transport, producer, event flags and messages as they were.
C8_SessionsIsolated ==
    /\ [](\A s \in Sessions : \A i \in 1..Len(sent[s]) :
             sent[s][i].sessionId \in {NoField, session_id[s]})
    /\ [][\A s \in Sessions : StepOf(s) =>
             \A t \in Sessions \ {s} :
                 /\ UserState(t)' = UserState(t)
                 /\ sent'[t] = sent[t]]_vars

C8_Witness ==
    /\ \A s \in Sessions : "start-record" \in Events(s)
    /\ \E s, t \in Sessions : session_id[s] # session_id[t]

\* Position of each message in the order of async_task.
Rank(ev) ==
    CASE ev = "getRouterRtpCapabilities" -> 1
      [] ev = "createTransport" -> 2
      [] ev = "connectProducerTransport" -> 3
      [] ev = "transport-produce" -> 4
      [] ev = "start-record" -> 5
      [] ev = "stop-record" -> 6

\* C9: within a session the steps happen in the order connect, greeting,
\* getRouterRtpCapabilities, device, createTransport, connectProducerTransport
\* and transport-produce, start-record, end of track, stop-record, images,
\* close; each step begins only when the one before has resolved.
C9_StepsInOrder ==
    \A s \in Sessions :
        /\ \A i, j \in 1..Len(sent[s]) :
              i < j => Rank(sent[s][i].event) <= Rank(sent[s][j].event)
        /\ handlers[s] => sio[s] # "disconnected"
        /\ connection_success_event[s] => handlers[s]
        /\ "getRouterRtpCapabilities" \in Events(s)
              => connection_success_event[s]
        /\ device[s] # None => router_rtp_capabilities[s] # None
        /\ "createTransport" \in Events(s) => device[s] # None
        /\ producer_transport[s] # None => "createTransport" \in Events(s)
        /\ "connectProducerTransport" \in Events(s)
              => producer_transport[s] # None
        /\ "transport-produce" \in Events(s)
              => "connectProducerTransport" \in Events(s)
        /\ local_producer[s] # None => "transport-produce" \in Events(s)
        /\ "start-record" \in Events(s) => local_producer[s] = "producing"
        /\ "stop-record" \in Events(s)
              => track_ended_event[s] /\ "start-record" \in Events(s)
        /\ result[s].received => "stop-record" \in Events(s)
        /\ files[s] # NoFiles => result[s].received
        /\ sio[s] = "closed"
              => files[s] = [first |-> "written", last |-> "written"]

C9_Witness ==
    \E s \in Sessions :
        /\ pc[s] = "done"
        /\ sio[s] = "closed"
        /\ Len(sent[s]) >= 6

\* C10: createTransport is never issued before the getRouterRtpCapabilities
\* call has resolved with a response.
C10_TransportAfterCapabilities ==
    \A s \in Sessions :
        "createTransport" \in Events(s)
            => /\ router_rtp_capabilities[s] # None
               /\ session_id[s] # None

C10_Witness ==
    \E s \in Sessions :
        /\ "createTransport" \in Events(s)
        /\ router_rtp_capabilities[s] = "capabilities"

\* C11: every pending call of a session (getRouterRtpCapabilities,
\* createTransport, transport-produce, stop-record) eventually resolves, with
\* a response or with an error; the session does not stay suspended on a call
\* whose response never arrives.
C11_PendingCallsResolve ==
    \A s \in Sessions :
        \A p \in CallPcs : (pc[s] = p) ~> (pc[s] # p)

C11_Witness ==
    \E s \in Sessions :
        /\ dropped[s]
        /\ pc[s] = "failed"
        /\ error[s] = [step |-> "stop-record", type |-> "TimeoutError"]

\* C12: a connection-success pushed at any time after the channel connected
\* is not lost: once it has been pushed, a session waiting on
\* connection_success_event finds the event set and can go on to
\* getRouterRtpCapabilities.
C12_GreetingNeverLost ==
    \A s \in Sessions :
        (greeted[s] /\ pc[s] = "wait_connection_success")
            => connection_success_event[s]

\* C13: when the track ends at any time after transport-produce was issued
\* (produce() still awaiting the response included), the end of the track is
\* observed: track_ended_event gets set.
C13_TrackEndedNeverLost ==
    [][\A s \in Sessions :
          (~trackDone[s] /\ trackDone'[s] /\ "transport-produce" \in Events(s))
              => track_ended_event'[s]]_vars

\* C14: the failure of one session does not stop the other: a session is
\* never cancelled because the other one failed.
C14_FailureDoesNotStopOther ==
    \A s \in Sessions :
        (\E t \in Sessions \ {s} : pc[t] = "failed") => pc[s] # "cancelled"

\* C15: every message with a sessionId field carries the identifier the
\* server returned in the session's getRouterRtpCapabilities response, never
\* None, and session_id does not change once bound.
C15_SessionIdBoundOnce ==
    /\ [](\A s \in Sessions : \A i \in 1..Len(sent[s]) :
             sent[s][i].sessionId # NoField
                 => /\ sent[s][i].sessionId # None
                    /\ sent[s][i].sessionId = assigned[s])
    /\ [][\A s \in Sessions :
             session_id[s] # None => session_id'[s] = session_id[s]]_vars

C15_Witness ==
    \E s \in Sessions :
        /\ {"createTransport", "connectProducerTransport", "transport-produce",
            "start-record", "stop-record"} \subseteq Events(s)
        /\ assigned[s] \in SessionIds
        /\ \E t \in Sessions : assigned[t] \in SessionIds \ {assigned[s]}

====
